---- MODULE Spec2Model ----
(***************************************************************************)
(* SEO Analyzer (Chrome extension).                                        *)
(*                                                                         *)
(*   content script (src/unnamed/part_000): extractors, the nine scorers,  *)
(*       buildSummary, analyzeSeo and the chrome.runtime.onMessage         *)
(*       listener;                                                         *)
(*   popup (src/popup.js): analyze(), render(), isRestrictedUrl().         *)
(*                                                                         *)
(* Representation.                                                         *)
(*   - A string the code inspects character by character (title, meta      *)
(*     content, href, url, script text) is a sequence of one-character     *)
(*     strings, so that .length, startsWith, includes, toLowerCase and the *)
(*     whitespace regex are computed and not assumed.                      *)
(*   - A string the code only builds and displays (badge, summary, error   *)
(*     text) is a TLA+ string built with \o and ToString.                  *)
(*   - A value that may be null/undefined is a sequence of length 0        *)
(*     (absent) or 1 (present): None, Some(v).                             *)
(*   - Characters outside ASCII are transliterated: the score placeholder  *)
(*     (an em dash) is "-", the ellipsis is "...".                         *)
(*   - The `detail` text of a SignalResult and the generatedAt clock value *)
(*     are display-only and are left out of the records.                   *)
(***************************************************************************)
EXTENDS Integers, Sequences, FiniteSets, TLC

VARIABLES
    doc,             \* the tab's document, as the extractors see it
    inbox,           \* message delivered to the content script's listener
    outbox,          \* value the listener passed to sendResponse
    pc,              \* popup: position of analyze()
    tabs,            \* what chrome.tabs.query resolves to
    refreshDisabled, \* REFRESH.disabled
    scoreText,       \* SCORE.textContent
    summaryText,     \* SUMMARY content
    timestampText,   \* TIMESTAMP.textContent
    results,         \* RESULTS children (rows)
    errorHidden,     \* ERROR.hidden
    errorText,       \* ERROR.textContent
    pageUrlText,     \* PAGE_URL.textContent
    path,            \* how the last finished analyze() run ended
    requests,        \* ANALYZE_SEO requests sent by the current run
    coreCalls,       \* analyzeSeo() invocations during the current run
    sumItems,        \* buildSummary: argument items
    sumTotal,        \* buildSummary: argument totalScore
    sumText          \* buildSummary: returned string

vars == << doc, inbox, outbox, pc, tabs, refreshDisabled, scoreText,
           summaryText, timestampText, results, errorHidden, errorText,
           pageUrlText, path, requests, coreCalls, sumItems, sumTotal,
           sumText >>

contentVars == << doc, inbox, outbox >>
popupVars == << pc, tabs, refreshDisabled, scoreText, summaryText,
                timestampText, results, errorHidden, errorText, pageUrlText,
                path, requests, coreCalls >>
summaryVars == << sumItems, sumTotal, sumText >>

-----------------------------------------------------------------------------
(* Bounds of the model.                                                    *)

MaxTitleLen == 62
MaxDescLen == 162
MaxWords == 301
MaxHeading == 2
MaxImages == 10
MaxMixedImages == 3
MaxBlocks == 3
MaxRobotsParts == 3

-----------------------------------------------------------------------------
(* Values and strings.                                                     *)

None == << >>
Some(v) == << v >>
IsNone(o) == Len(o) = 0
\* `x || ''` on a nullable string: null, undefined and '' all give ''.
OrEmpty(o) == IF Len(o) = 0 THEN << >> ELSE o[1]

Rep(n) == [i \in 1..n |-> "a"]

Min2(a, b) == IF a < b THEN a ELSE b
Max2(a, b) == IF a > b THEN a ELSE b

IsWs(c) == c \in {" ", "\t", "\n"}

\* <<s[i], s[i-1]>> for every position i; the first has no predecessor.
WithPrev(s) == [i \in 1..Len(s) |-> << s[i], IF i > 1 THEN s[i - 1] ELSE "" >>]
\* A whitespace character that follows whitespace continues a run.
StartsOrBreaksRun(p) == ~(IsWs(p[1]) /\ IsWs(p[2]))

\* text.replace(/\s+/g, ' '): every maximal run of whitespace becomes one ' '.
Collapse(s) ==
    LET kept == SelectSeq(WithPrev(s), StartsOrBreaksRun)
    IN  [k \in 1..Len(kept) |-> IF IsWs(kept[k][1]) THEN " " ELSE kept[k][1]]

RECURSIVE TrimLeft(_)
TrimLeft(s) ==
    IF Len(s) > 0 /\ IsWs(s[1]) THEN TrimLeft(Tail(s)) ELSE s

RECURSIVE TrimRight(_)
TrimRight(s) ==
    IF Len(s) > 0 /\ IsWs(s[Len(s)])
    THEN TrimRight(SubSeq(s, 1, Len(s) - 1))
    ELSE s

trim(s) == TrimRight(TrimLeft(s))

normalizeSpace(text) == trim(Collapse(text))

startsWith(s, p) == Len(s) >= Len(p) /\ SubSeq(s, 1, Len(p)) = p

includes(s, p) ==
    \E i \in 1..(Len(s) - Len(p) + 1) : SubSeq(s, i, i + Len(p) - 1) = p

\* String.prototype.toLowerCase on the letters the model's strings use.
LowerChar(c) ==
    CASE c = "N" -> "n" [] c = "O" -> "o" [] c = "I" -> "i" [] c = "D" -> "d"
      [] c = "E" -> "e" [] c = "X" -> "x" [] c = "F" -> "f" [] c = "L" -> "l"
      [] c = "W" -> "w" [] c = "H" -> "h" [] c = "T" -> "t" [] c = "P" -> "p"
      [] c = "S" -> "s" [] c = "A" -> "a"
      [] OTHER -> c

toLowerCase(s) == [i \in 1..Len(s) |-> LowerChar(s[i])]

clamp(n, min, max) == Max2(min, Min2(max, n))

-----------------------------------------------------------------------------
(* Extractors.                                                             *)

MetaNames == {"description", "keywords", "robots"}

\* doc.meta[name]: the content attribute of the first meta[name=...], or None
\* when there is no such element or it has no content attribute.
getMetaContentByName(d, name) == normalizeSpace(OrEmpty(d.meta[name]))

getCanonicalHref(d) == normalizeSpace(OrEmpty(d.canonical))

\* JSON.parse succeeds on the normalized text.  The script texts of the model
\* are over the alphabet { ' ', '{', '}' }, on which the only JSON texts are the
\* empty object, with or without inner whitespace.
JsonParses(raw) == raw \in { << "{", "}" >>, << "{", " ", "}" >> }

RECURSIVE JsonLdScan_NoSkip(_, _, _, _)
\* Variant: no `if (!raw) continue`; JSON.parse('') throws, so an empty block
\* is a parse error.
JsonLdScan_NoSkip(nodes, i, parsedLen, parseErrors) ==
    IF i > Len(nodes) THEN [parsedLen |-> parsedLen, parseErrors |-> parseErrors]
    ELSE IF JsonParses(normalizeSpace(nodes[i]))
         THEN JsonLdScan_NoSkip(nodes, i + 1, parsedLen + 1, parseErrors)
         ELSE JsonLdScan_NoSkip(nodes, i + 1, parsedLen, parseErrors + 1)

RECURSIVE JsonLdScan(_, _, _, _)
\* The for-loop of getJsonLdBlocks: parsed.length and parseErrors after the
\* nodes from index i on.
JsonLdScan(nodes, i, parsedLen, parseErrors) ==
    IF i > Len(nodes) THEN [parsedLen |-> parsedLen, parseErrors |-> parseErrors]
    ELSE LET raw == normalizeSpace(nodes[i])
         IN  IF Len(raw) = 0
             THEN JsonLdScan(nodes, i + 1, parsedLen, parseErrors)
             ELSE IF JsonParses(raw)
                  THEN JsonLdScan(nodes, i + 1, parsedLen + 1, parseErrors)
                  ELSE JsonLdScan(nodes, i + 1, parsedLen, parseErrors + 1)

JsonLdCount(nodes) == Len(nodes)

getJsonLdBlocks(d) ==
    LET nodes == d.jsonld
        r == JsonLdScan(nodes, 1, 0, 0)
    IN  [count |-> JsonLdCount(nodes),
         parsedCount |-> r.parsedLen,
         parseErrors |-> r.parseErrors]

getHeadingsCount(d) == d.headings

HasSrc(img) == Len(normalizeSpace(OrEmpty(img.src))) > 0
HasAlt(img) == Len(normalizeSpace(OrEmpty(img.alt))) > 0

getImageAltStats(d) ==
    LET relevant == SelectSeq(d.images, HasSrc)
        total == Len(relevant)
        withAlt == Len(SelectSeq(relevant, HasAlt))
    IN  [total |-> total, withAlt |-> withAlt, withoutAlt |-> total - withAlt]

\* doc.body is None when document.body is missing; otherwise it carries the
\* number of matches of /[\p{L}\p{N}]+/gu in the visible text.
getWordCount(d) == IF IsNone(d.body) THEN 0 ELSE d.body[1]

-----------------------------------------------------------------------------
(* Scorers.  A SignalResult is [points, status, badge].  The multiplication *)
(* sign of the heading badge is written x.                                 *)

Result(p, s, b) == [points |-> p, status |-> s, badge |-> b]

\* Variant: the good band of the title weighted 22 instead of 20.
scoreTitle_Heavy(title) ==
    LET len == Len(title)
    IN  IF len = 0 THEN Result(0, "bad", "Missing")
        ELSE IF len >= 10 /\ len <= 60
             THEN Result(22, "good", ToString(len) \o " chars")
             ELSE Result(12, "warn", ToString(len) \o " chars")

scoreTitle(title) ==
    LET len == Len(title)
    IN  IF len = 0 THEN Result(0, "bad", "Missing")
        ELSE IF len >= 10 /\ len <= 60
             THEN Result(20, "good", ToString(len) \o " chars")
             ELSE Result(12, "warn", ToString(len) \o " chars")

scoreMetaDescription(description) ==
    LET len == Len(description)
    IN  IF len = 0 THEN Result(0, "bad", "Missing")
        ELSE IF len >= 50 /\ len <= 160
             THEN Result(20, "good", ToString(len) \o " chars")
             ELSE Result(12, "warn", ToString(len) \o " chars")

scoreMetaKeywords(keywords) ==
    IF Len(keywords) = 0 THEN Result(0, "warn", "Not set")
    ELSE Result(3, "good", "Present")

\* Variant: any H1 at all counts as ideal.
scoreHeadings_AnyH1(counts) ==
    LET h1 == counts.h1
        total == counts.h1 + counts.h2 + counts.h3 + counts.h4 + counts.h5
                 + counts.h6
    IN  IF total = 0 THEN Result(0, "bad", "None")
        ELSE IF h1 >= 1 THEN Result(15, "good", "H1x" \o ToString(h1))
        ELSE Result(7, "warn", "No H1")

scoreHeadings(counts) ==
    LET h1 == counts.h1
        total == counts.h1 + counts.h2 + counts.h3 + counts.h4 + counts.h5
                 + counts.h6
    IN  IF total = 0 THEN Result(0, "bad", "None")
        ELSE IF h1 = 1 THEN Result(15, "good", "H1x" \o ToString(h1))
        ELSE IF h1 = 0 THEN Result(7, "warn", "No H1")
        ELSE Result(7, "warn", "H1x" \o ToString(h1))

\* ratio = withAlt / total is an IEEE double.  Division is correctly rounded
\* and rounding is monotone, and for total < 2^49 no quotient other than 9/10
\* (3/5) rounds to the double 0.9 (0.6), so `ratio >= 0.9` is 10*withAlt >=
\* 9*total and `ratio >= 0.6` is 5*withAlt >= 3*total.
\* Variant: strict comparison of the ratio with the threshold.
RatioAbove(withAlt, total, num, den) == den * withAlt > num * total

RatioAtLeast(withAlt, total, num, den) == den * withAlt >= num * total

\* Math.round(ratio * 100): round half up.  Exact for the totals of the model
\* (a half occurs only when the reduced denominator is 8, a binary fraction).
Pct(withAlt, total) == (200 * withAlt + total) \div (2 * total)

\* Variant: a page without images classified good while keeping its 6 points.
scoreImages_NeutralGood(images) ==
    IF images.total = 0 THEN Result(6, "good", "No images")
    ELSE LET pct == Pct(images.withAlt, images.total)
         IN  IF RatioAtLeast(images.withAlt, images.total, 9, 10)
             THEN Result(10, "good", ToString(pct) \o "%")
             ELSE IF RatioAtLeast(images.withAlt, images.total, 3, 5)
                  THEN Result(6, "warn", ToString(pct) \o "%")
                  ELSE Result(2, "bad", ToString(pct) \o "%")

\* Variant: no special case for total = 0; 0/0 is NaN and every comparison
\* with NaN is false.
scoreImages_NoZeroCase(images) ==
    IF images.total = 0 THEN Result(2, "bad", "NaN%")
    ELSE LET pct == Pct(images.withAlt, images.total)
         IN  IF RatioAtLeast(images.withAlt, images.total, 9, 10)
             THEN Result(10, "good", ToString(pct) \o "%")
             ELSE IF RatioAtLeast(images.withAlt, images.total, 3, 5)
                  THEN Result(6, "warn", ToString(pct) \o "%")
                  ELSE Result(2, "bad", ToString(pct) \o "%")

scoreImages(images) ==
    IF images.total = 0 THEN Result(6, "warn", "No images")
    ELSE LET pct == Pct(images.withAlt, images.total)
         IN  IF RatioAtLeast(images.withAlt, images.total, 9, 10)
             THEN Result(10, "good", ToString(pct) \o "%")
             ELSE IF RatioAtLeast(images.withAlt, images.total, 3, 5)
                  THEN Result(6, "warn", ToString(pct) \o "%")
                  ELSE Result(2, "bad", ToString(pct) \o "%")

\* /^https?:\/\//i.test(href) || href.startsWith('/')
looksLikeUrl(href) ==
    \/ startsWith(toLowerCase(href), << "h", "t", "t", "p", ":", "/", "/" >>)
    \/ startsWith(toLowerCase(href),
                  << "h", "t", "t", "p", "s", ":", "/", "/" >>)
    \/ startsWith(href, << "/" >>)

\* Variant: canonical given the robots weight.
scoreCanonical_Swapped(href) ==
    IF Len(href) = 0 THEN Result(0, "warn", "Missing")
    ELSE IF ~looksLikeUrl(href) THEN Result(3, "warn", "Present")
    ELSE Result(6, "good", "Present")

scoreCanonical(href) ==
    IF Len(href) = 0 THEN Result(0, "warn", "Missing")
    ELSE IF ~looksLikeUrl(href) THEN Result(3, "warn", "Present")
    ELSE Result(5, "good", "Present")

S_noindex == << "n", "o", "i", "n", "d", "e", "x" >>
S_nofollow == << "n", "o", "f", "o", "l", "l", "o", "w" >>

\* Variant: the directive compared without lowercasing.
RobotsValue_CaseSensitive(robots) == robots

RobotsValue(robots) == toLowerCase(robots)

scoreRobots(robots) ==
    IF Len(robots) = 0 THEN Result(6, "good", "Not set")
    ELSE LET value == RobotsValue(robots)
             blocksIndexing == includes(value, S_noindex)
                               \/ includes(value, S_nofollow)
         IN  IF blocksIndexing THEN Result(0, "bad", "Blocking")
             ELSE Result(6, "good", "OK")

\* Variant: good only when every counted block parsed.
scoreStructuredData_Strict(jsonld) ==
    IF jsonld.count = 0 THEN Result(0, "warn", "None")
    ELSE IF jsonld.parsedCount = jsonld.count /\ jsonld.parseErrors = 0
         THEN Result(10, "good",
                     ToString(jsonld.parsedCount) \o
                     (IF jsonld.parsedCount = 1 THEN " block" ELSE " blocks"))
         ELSE Result(5, "warn", "Partial")

scoreStructuredData(jsonld) ==
    IF jsonld.count = 0 THEN Result(0, "warn", "None")
    ELSE IF jsonld.parsedCount > 0 /\ jsonld.parseErrors = 0
         THEN Result(10, "good",
                     ToString(jsonld.parsedCount) \o
                     (IF jsonld.parsedCount = 1 THEN " block" ELSE " blocks"))
         ELSE Result(5, "warn", "Partial")

scoreWordCount(words) ==
    IF words = 0 THEN Result(0, "bad", "0")
    ELSE IF words >= 300 THEN Result(10, "good", ToString(words))
    ELSE IF words >= 150 THEN Result(6, "warn", ToString(words))
    ELSE Result(2, "warn", ToString(words))

-----------------------------------------------------------------------------
(* Summary synthesizer.                                                    *)

RECURSIVE join(_, _)
\* Array.prototype.join
join(arr, sep) ==
    IF Len(arr) = 0 THEN ""
    ELSE IF Len(arr) = 1 THEN arr[1]
    ELSE arr[1] \o sep \o join(Tail(arr), sep)

\* `if (cond) arr.push(label)` contributes label or nothing.
PushIf(cond, label) == IF cond THEN << label >> ELSE << >>

positivesOf(items) ==
    PushIf(items.title.status = "good", "title")
    \o PushIf(items.metaDescription.status = "good", "meta description")
    \o PushIf(items.canonical.status = "good", "canonical")
    \o PushIf(items.structuredData.status = "good", "structured data")

\* Variant: robots treated like the other three issue signals.
RobotsIsIssue_NotGood(status) == status # "good"

RobotsIsIssue(status) == status = "bad"

issuesOf(items) ==
    PushIf(items.headings.status # "good", "headings")
    \o PushIf(items.images.status # "good", "image alts")
    \o PushIf(RobotsIsIssue(items.robots.status), "robots (noindex/nofollow)")
    \o PushIf(items.wordCount.status # "good", "content length")

buildSummary(items, totalScore) ==
    LET positives == positivesOf(items)
        issues == issuesOf(items)
        parts ==
            << "SEO score: " \o ToString(totalScore) \o "/100." >>
            \o (IF Len(positives) > 0
                THEN << "Strong: " \o join(positives, ", ") \o "." >>
                ELSE << >>)
            \o (IF Len(issues) > 0
                THEN << "Check: " \o join(issues, ", ") \o "." >>
                ELSE << >>)
    IN  join(parts, " ")

-----------------------------------------------------------------------------
(* Aggregator.                                                             *)

SumPoints(items) ==
    items.title.points + items.metaDescription.points
    + items.metaKeywords.points + items.headings.points + items.images.points
    + items.canonical.points + items.robots.points
    + items.structuredData.points + items.wordCount.points

analyzeSeo(d) ==
    LET titleText == normalizeSpace(d.title)
        metaDescriptionText == getMetaContentByName(d, "description")
        metaKeywordsText == getMetaContentByName(d, "keywords")
        headingCounts == getHeadingsCount(d)
        imageStats == getImageAltStats(d)
        canonicalHref == getCanonicalHref(d)
        robotsText == getMetaContentByName(d, "robots")
        jsonld == getJsonLdBlocks(d)
        words == getWordCount(d)
        items == [title |-> scoreTitle(titleText),
                  metaDescription |-> scoreMetaDescription(metaDescriptionText),
                  metaKeywords |-> scoreMetaKeywords(metaKeywordsText),
                  headings |-> scoreHeadings(headingCounts),
                  images |-> scoreImages(imageStats),
                  canonical |-> scoreCanonical(canonicalHref),
                  robots |-> scoreRobots(robotsText),
                  structuredData |-> scoreStructuredData(jsonld),
                  wordCount |-> scoreWordCount(words)]
        total == clamp(SumPoints(items), 0, 100)
    IN  [page |-> [url |-> d.url],
         score |-> [total |-> total],
         raw |-> [title |-> titleText,
                  metaDescription |-> metaDescriptionText,
                  metaKeywords |-> metaKeywordsText,
                  headings |-> headingCounts,
                  images |-> imageStats,
                  canonical |-> canonicalHref,
                  robots |-> robotsText,
                  jsonld |-> jsonld,
                  wordCount |-> words],
         items |-> items,
         summary |-> buildSummary(items, total)]

-----------------------------------------------------------------------------
(* Content script: the chrome.runtime.onMessage listener.                  *)

AnalyzeRequest == [type |-> "ANALYZE_SEO"]
OtherRequest == [type |-> "PING"]

\* A message typed ANALYZE_SEO: run the analysis and answer.
OnMessage ==
    /\ ~IsNone(inbox)
    /\ inbox[1].type = "ANALYZE_SEO"
    /\ inbox' = None
    /\ outbox' = Some([type |-> "SEO_ANALYSIS", payload |-> analyzeSeo(doc)])
    /\ coreCalls' = coreCalls + 1
    /\ UNCHANGED << doc, pc, tabs, refreshDisabled, scoreText, summaryText,
                    timestampText, results, errorHidden, errorText,
                    pageUrlText, path, requests >>
    /\ UNCHANGED summaryVars

\* Any other message: the listener returns without answering.
OnMessageIgnored ==
    /\ ~IsNone(inbox)
    /\ inbox[1].type # "ANALYZE_SEO"
    /\ inbox' = None
    /\ UNCHANGED << doc, outbox >>
    /\ UNCHANGED popupVars
    /\ UNCHANGED summaryVars

-----------------------------------------------------------------------------
(* Popup.                                                                  *)

Placeholder == "-"
S_unknownUrl == << "(", "u", "n", "k", "n", "o", "w", "n", " ", "U", "R", "L",
                   ")" >>

P_chrome == << "c", "h", "r", "o", "m", "e", ":", "/", "/" >>
P_chromeExtension == << "c", "h", "r", "o", "m", "e", "-", "e", "x", "t", "e",
                        "n", "s", "i", "o", "n", ":", "/", "/" >>
P_edge == << "e", "d", "g", "e", ":", "/", "/" >>
P_about == << "a", "b", "o", "u", "t", ":" >>

\* url is None (undefined) or Some(string).
isRestrictedUrl(url) ==
    IF Len(OrEmpty(url)) = 0 THEN TRUE
    ELSE \/ startsWith(url[1], P_chrome)
         \/ startsWith(url[1], P_chromeExtension)
         \/ startsWith(url[1], P_edge)
         \/ startsWith(url[1], P_about)

\* tab?.url
TabUrl(tab) == IF IsNone(tab) THEN None ELSE tab[1].url

\* x || '(unknown URL)'
OrUnknown(s) == IF Len(s) = 0 THEN S_unknownUrl ELSE s

badgeClass(status) ==
    IF status = "good" THEN "good"
    ELSE IF status = "warn" THEN "warn"
    ELSE "bad"

createRow(label, item) ==
    [label |-> label, class |-> badgeClass(item.status), badge |-> item.badge]

RenderedRows(items) ==
    << createRow("Page Title", items.title),
       createRow("Meta Description", items.metaDescription),
       createRow("Meta Keywords (optional)", items.metaKeywords),
       createRow("Headings (H1-H6)", items.headings),
       createRow("Image Alt Attributes", items.images),
       createRow("Canonical Tag", items.canonical),
       createRow("Robots Meta Tag", items.robots),
       createRow("Structured Data (JSON-LD)", items.structuredData),
       createRow("Word Count", items.wordCount) >>

\* Variant: ERROR.hidden = !!message.
ErrorHiddenFor_Inverted(message) == message # ""

\* setError(message): the two assignments, as the next-state values.
ErrorHiddenFor(message) == message = ""

\* The synchronous head of analyze(), up to `await getActiveTab()`.
AnalyzeBegin ==
    /\ refreshDisabled' = TRUE
    /\ scoreText' = Placeholder
    /\ summaryText' = "Analyzing current page..."
    /\ timestampText' = ""
    /\ results' = << >>
    /\ errorHidden' = ErrorHiddenFor("")
    /\ errorText' = ""
    /\ pc' = "await_tab"
    /\ requests' = 0
    /\ coreCalls' = 0
    /\ UNCHANGED << tabs, pageUrlText, path >>
    /\ UNCHANGED contentVars
    /\ UNCHANGED summaryVars

\* analyze() at the end of the popup script.
PopupOpened ==
    /\ pc = "load"
    /\ AnalyzeBegin

\* REFRESH click listener; a disabled button dispatches no click.
RefreshClicked ==
    /\ pc # "load"
    /\ ~refreshDisabled
    /\ AnalyzeBegin

\* getActiveTab() throws.
TabQueryRejected ==
    /\ pc = "await_tab"
    /\ errorHidden' = ErrorHiddenFor("Failed to get active tab.")
    /\ errorText' = "Failed to get active tab."
    /\ summaryText' = "Could not analyze."
    /\ refreshDisabled' = FALSE
    /\ pc' = "idle"
    /\ path' = "tabFail"
    /\ UNCHANGED << tabs, scoreText, timestampText, results, pageUrlText,
                    requests, coreCalls >>
    /\ UNCHANGED contentVars
    /\ UNCHANGED summaryVars

\* tabs[0]: undefined when the query resolves to an empty list.
ActiveTab == IF Len(tabs) = 0 THEN None ELSE Some(tabs[1])

\* getActiveTab() resolves and the URL is missing or restricted.
TabRestricted ==
    /\ pc = "await_tab"
    /\ isRestrictedUrl(TabUrl(ActiveTab))
    /\ pageUrlText' = OrUnknown(OrEmpty(TabUrl(ActiveTab)))
    /\ errorHidden' =
           ErrorHiddenFor("This page cannot be analyzed (restricted URL).")
    /\ errorText' = "This page cannot be analyzed (restricted URL)."
    /\ summaryText' = "Open a regular website tab and try again."
    /\ refreshDisabled' = FALSE
    /\ pc' = "idle"
    /\ path' = "restricted"
    /\ UNCHANGED << tabs, scoreText, timestampText, results, requests,
                    coreCalls >>
    /\ UNCHANGED contentVars
    /\ UNCHANGED summaryVars

\* getActiveTab() resolves to an analyzable tab: chrome.tabs.sendMessage.
SendRequest ==
    /\ pc = "await_tab"
    /\ ~isRestrictedUrl(TabUrl(ActiveTab))
    /\ pageUrlText' = OrUnknown(OrEmpty(TabUrl(ActiveTab)))
    /\ inbox' = Some(AnalyzeRequest)
    /\ outbox' = None
    /\ requests' = requests + 1
    /\ pc' = "await_msg"
    /\ UNCHANGED << doc, tabs, refreshDisabled, scoreText, summaryText,
                    timestampText, results, errorHidden, errorText, path,
                    coreCalls >>
    /\ UNCHANGED summaryVars

\* Variant: the catch block without the finally block; REFRESH stays disabled.
CatchUnreachable_NoFinally(how) ==
    /\ errorHidden' = ErrorHiddenFor(
           "Could not reach analyzer on this page. Try reloading the tab.")
    /\ errorText' =
           "Could not reach analyzer on this page. Try reloading the tab."
    /\ summaryText' = "Could not analyze."
    /\ refreshDisabled' = refreshDisabled
    /\ pc' = "idle"
    /\ path' = how

\* The catch block followed by the finally block.
CatchUnreachable(how) ==
    /\ errorHidden' = ErrorHiddenFor(
           "Could not reach analyzer on this page. Try reloading the tab.")
    /\ errorText' =
           "Could not reach analyzer on this page. Try reloading the tab."
    /\ summaryText' = "Could not analyze."
    /\ refreshDisabled' = FALSE
    /\ pc' = "idle"
    /\ path' = how

\* sendMessage rejects: no listener in the tab took the message.
SendRejected ==
    /\ pc = "await_msg"
    /\ ~IsNone(inbox)
    /\ inbox' = None
    /\ CatchUnreachable("sendReject")
    /\ UNCHANGED << doc, outbox, tabs, scoreText, timestampText, results,
                    pageUrlText, requests, coreCalls >>
    /\ UNCHANGED summaryVars

\* !analysis || analysis.type !== 'SEO_ANALYSIS'
Unexpected(analysis) ==
    IF IsNone(analysis) THEN TRUE ELSE analysis[1].type # "SEO_ANALYSIS"

\* What sendMessage can resolve to when the content script did not answer.
ForeignResponses == { None, Some([type |-> "PONG"]) }

\* sendMessage resolves to nothing or to a message of another type.
ResponseUnexpected ==
    /\ pc = "await_msg"
    /\ ~IsNone(inbox)
    /\ \E analysis \in ForeignResponses : Unexpected(analysis)
    /\ inbox' = None
    /\ CatchUnreachable("badResponse")
    /\ UNCHANGED << doc, outbox, tabs, scoreText, timestampText, results,
                    pageUrlText, requests, coreCalls >>
    /\ UNCHANGED summaryVars

\* sendMessage resolves to the content script's answer: render(), finally.
ResponseRendered ==
    /\ pc = "await_msg"
    /\ ~IsNone(outbox)
    /\ ~Unexpected(outbox)
    /\ LET analysis == outbox[1].payload
       IN  /\ results' = RenderedRows(analysis.items)
           /\ errorHidden' = ErrorHiddenFor("")
           /\ errorText' = ""
           /\ pageUrlText' = OrUnknown(analysis.page.url)
           /\ scoreText' = ToString(analysis.score.total)
           /\ summaryText' = analysis.summary
           /\ timestampText' = "Updated"
    /\ outbox' = None
    /\ refreshDisabled' = FALSE
    /\ pc' = "idle"
    /\ path' = "rendered"
    /\ UNCHANGED << doc, inbox, tabs, requests, coreCalls >>
    /\ UNCHANGED summaryVars

-----------------------------------------------------------------------------
(* buildSummary applied to an arbitrary items record.                      *)

BuildSummaryStep ==
    /\ sumText = ""
    /\ sumText' = buildSummary(sumItems, sumTotal)
    /\ UNCHANGED << sumItems, sumTotal >>
    /\ UNCHANGED contentVars
    /\ UNCHANGED popupVars

-----------------------------------------------------------------------------
(* Documents, tabs and initial states.                                     *)

SeqsUpTo(S, n) == UNION { [1..k -> S] : k \in 0..n }

RECURSIVE Flatten(_)
Flatten(ss) == IF Len(ss) = 0 THEN << >> ELSE ss[1] \o Flatten(Tail(ss))

U_https == << "h", "t", "t", "p", "s", ":", "/", "/", "a", ".", "b" >>
U_http == << "h", "t", "t", "p", ":", "/", "/", "a", ".", "b" >>
U_file == << "f", "i", "l", "e", ":", "/", "/", "/", "a" >>
U_chromeCom == << "c", "h", "r", "o", "m", "e", ".", "c", "o", "m" >>

NoHeadings == [h1 |-> 0, h2 |-> 0, h3 |-> 0, h4 |-> 0, h5 |-> 0, h6 |-> 0]

BaseDoc ==
    [title |-> Rep(12),
     meta |-> [description |-> None, keywords |-> None, robots |-> None],
     canonical |-> None,
     jsonld |-> << >>,
     headings |-> NoHeadings,
     images |-> << >>,
     body |-> Some(0),
     url |-> U_https]

ImgAlt == [src |-> Some(<< "a", ".", "p", "n", "g" >>), alt |-> Some(<< "x" >>)]
ImgNoAlt == [src |-> Some(<< "a", ".", "p", "n", "g" >>), alt |-> None]
ImgBlankAlt == [src |-> Some(<< "a", ".", "p", "n", "g" >>),
                alt |-> Some(<< " ", "\t" >>)]
ImgNoSrc == [src |-> None, alt |-> Some(<< "x" >>)]
ImgBlankSrc == [src |-> Some(<< " " >>), alt |-> None]

PlainImages == { ImgAlt, ImgNoAlt }
ImageKinds == { ImgAlt, ImgNoAlt, ImgBlankAlt, ImgNoSrc, ImgBlankSrc }

BlockTexts ==
    { << >>, << " " >>, << "\n", " " >>,
      << "{", "}" >>, << " ", "{", " ", " ", "}", "\n" >>,
      << "{" >>, << "}", " ", "{" >> }

RobotsFragments ==
    { << "n", "o" >>, << "N", "O" >>, << "i", "n", "d", "e", "x" >>,
      << "I", "n", "d", "e", "x" >>, << "f", "o", "l", "l", "o", "w" >>,
      << "F", "O", "L", "L", "O", "W" >>, << ",", " " >>, << "a", "l", "l" >> }

CanonicalValues ==
    { None, Some(<< >>), Some(<< " " >>), Some(U_https), Some(U_http),
      Some(<< "H", "T", "T", "P", "S", ":", "/", "/", "a" >>),
      Some(<< "/", "p" >>), Some(<< "f", "t", "p", ":", "/", "/", "a" >>),
      Some(<< "h", "t", "t", "p", "a" >>), Some(<< "p", "/" >>) }

KeywordValues ==
    { None, Some(<< >>), Some(<< " ", " " >>), Some(<< "s", "e", "o" >>) }

TitleDocs ==
    { [BaseDoc EXCEPT !.title = t] :
        t \in { Rep(n) : n \in 0..MaxTitleLen }
              \cup { << " " >>, << " ", "a", " ", " ", "b", "\n" >>,
                     Rep(9) \o << " " >>, Rep(60) \o << " ", " " >> } }

DescDocs ==
    { [BaseDoc EXCEPT !.meta.description = m] :
        m \in { None } \cup { Some(Rep(n)) : n \in 0..MaxDescLen } }

KeywordDocs == { [BaseDoc EXCEPT !.meta.keywords = k] : k \in KeywordValues }

HeadingDocs ==
    { [BaseDoc EXCEPT !.headings =
           [h1 |-> a, h2 |-> b, h3 |-> c, h4 |-> e, h5 |-> f, h6 |-> g]] :
        a \in 0..MaxHeading, b \in 0..MaxHeading, c \in 0..MaxHeading,
        e \in 0..MaxHeading, f \in 0..MaxHeading, g \in 0..MaxHeading }

ImageDocs ==
    { [BaseDoc EXCEPT !.images = im] :
        im \in SeqsUpTo(PlainImages, MaxImages)
               \cup SeqsUpTo(ImageKinds, MaxMixedImages) }

CanonicalDocs == { [BaseDoc EXCEPT !.canonical = c] : c \in CanonicalValues }

RobotsDocs ==
    { [BaseDoc EXCEPT !.meta.robots = r] :
        r \in { None }
              \cup { Some(Flatten(fs)) :
                       fs \in SeqsUpTo(RobotsFragments, MaxRobotsParts) } }

JsonLdDocs ==
    { [BaseDoc EXCEPT !.jsonld = b] : b \in SeqsUpTo(BlockTexts, MaxBlocks) }

WordDocs ==
    { [BaseDoc EXCEPT !.body = w] :
        w \in { None } \cup { Some(n) : n \in 0..MaxWords } }

\* Documents that differ from BaseDoc in one signal, each signal over its
\* whole bounded range.
ScorerDocs ==
    TitleDocs \cup DescDocs \cup KeywordDocs \cup HeadingDocs \cup ImageDocs
    \cup CanonicalDocs \cup RobotsDocs \cup JsonLdDocs \cup WordDocs

\* Documents combining, for every signal, one input of each scoring band.
BandDocs ==
    { [title |-> t,
       meta |-> [description |-> de, keywords |-> k, robots |-> r],
       canonical |-> c,
       jsonld |-> j,
       headings |-> [NoHeadings EXCEPT !.h1 = h[1], !.h2 = h[2]],
       images |-> im,
       body |-> w,
       url |-> U_https] :
        t \in { << >>, Rep(9), Rep(10) },
        de \in { None, Some(Rep(49)), Some(Rep(50)) },
        k \in { None, Some(<< "s", "e", "o" >>) },
        r \in { None, Some(<< "a", "l", "l" >>), Some(S_noindex) },
        c \in { None, Some(<< "p", "/" >>), Some(<< "/", "p" >>) },
        j \in { << >>, << << "{", "}" >> >>, << << "{" >> >> },
        h \in { << 0, 0 >>, << 1, 0 >>, << 0, 1 >>, << 2, 0 >> },
        im \in { << >>, << ImgAlt >>, << ImgAlt, ImgAlt, ImgNoAlt >>,
                 << ImgNoAlt >> },
        w \in { Some(0), Some(149), Some(150), Some(300) } }

GoodDoc ==
    [title |-> Rep(10),
     meta |-> [description |-> Some(Rep(50)),
               keywords |-> Some(<< "s", "e", "o" >>),
               robots |-> Some(<< "a", "l", "l" >>)],
     canonical |-> Some(<< "/", "p" >>),
     jsonld |-> << << "{", "}" >> >>,
     headings |-> [NoHeadings EXCEPT !.h1 = 1],
     images |-> << ImgAlt >>,
     body |-> Some(300),
     url |-> U_https]

PopupDocs ==
    { BaseDoc, GoodDoc, [GoodDoc EXCEPT !.meta.robots = Some(S_noindex)],
      [BaseDoc EXCEPT !.images = << ImgAlt, ImgNoAlt >>] }

TabUrls ==
    { None, Some(<< >>), Some(U_https), Some(U_http), Some(U_file),
      Some(U_chromeCom),
      Some(P_chrome \o << "x" >>), Some(P_chromeExtension \o << "i", "d" >>),
      Some(P_edge \o << "x" >>),
      Some(P_about \o << "b", "l", "a", "n", "k" >>) }

TabLists == { << >> } \cup { << [id |-> 1, url |-> u] >> : u \in TabUrls }

Statuses == { "good", "warn", "bad" }
SignalNames ==
    { "title", "metaDescription", "metaKeywords", "headings", "images",
      "canonical", "robots", "structuredData", "wordCount" }
SumTotals == { 7, 99 }

PopupAtLoad ==
    /\ pc = "load"
    /\ refreshDisabled = FALSE
    /\ scoreText = Placeholder
    /\ summaryText = ""
    /\ timestampText = ""
    /\ results = << >>
    /\ errorHidden = TRUE
    /\ errorText = ""
    /\ pageUrlText = << >>
    /\ path = "none"
    /\ requests = 0
    /\ coreCalls = 0

SummaryUnused ==
    /\ sumItems = << >>
    /\ sumTotal = 0
    /\ sumText = ""

\* The extension: popup just loaded over a tab list, content script idle.
Init ==
    /\ tabs \in TabLists
    /\ \E d \in PopupDocs :
           doc = [d EXCEPT !.url = OrEmpty(TabUrl(ActiveTab))]
    /\ inbox = None
    /\ outbox = None
    /\ PopupAtLoad
    /\ SummaryUnused

Next ==
    \/ PopupOpened
    \/ RefreshClicked
    \/ TabQueryRejected
    \/ TabRestricted
    \/ SendRequest
    \/ OnMessage
    \/ SendRejected
    \/ ResponseUnexpected
    \/ ResponseRendered

Spec == Init /\ [][Next]_vars

\* The tab query settles: getActiveTab() rejects or resolves, and the
\* continuation of analyze() runs.
TabQuerySettles ==
    \/ TabQueryRejected
    \/ TabRestricted
    \/ SendRequest

\* The message call settles: chrome.tabs.sendMessage rejects or resolves, with
\* the listener's answer or without one, and the continuation of analyze()
\* runs.
MessageSettles ==
    \/ SendRejected
    \/ ResponseUnexpected
    \/ ResponseRendered

\* The extension under the assumption that pending promises settle and the
\* event loop then runs their continuations.
SpecLive ==
    /\ Init
    /\ [][Next]_vars
    /\ WF_vars(TabQuerySettles)
    /\ WF_vars(MessageSettles)

\* The content script alone, with a message delivered to its listener.
ContentInit(docs) ==
    /\ \/ doc \in docs /\ inbox = Some(AnalyzeRequest)
       \/ doc = BaseDoc /\ inbox = Some(OtherRequest)
    /\ outbox = None
    /\ tabs = << [id |-> 1, url |-> Some(U_https)] >>
    /\ PopupAtLoad
    /\ SummaryUnused

InitScorers == ContentInit(ScorerDocs)
InitContent == ContentInit(BandDocs)

NextContent ==
    \/ OnMessage
    \/ OnMessageIgnored

SpecScorers == InitScorers /\ [][NextContent]_vars
SpecContent == InitContent /\ [][NextContent]_vars

\* The content script over both families of documents: every signal over its
\* whole bounded range, and every combination of scoring bands.
InitScoring == ContentInit(ScorerDocs \cup BandDocs)

SpecScoring == InitScoring /\ [][NextContent]_vars

\* buildSummary alone, over every assignment of statuses.
InitSummary ==
    /\ sumItems \in [SignalNames -> { [status |-> st] : st \in Statuses }]
    /\ sumTotal \in SumTotals
    /\ sumText = ""
    /\ doc = BaseDoc
    /\ inbox = None
    /\ outbox = None
    /\ tabs = << >>
    /\ PopupAtLoad

NextSummary == BuildSummaryStep

SpecSummary == InitSummary /\ [][NextSummary]_vars

-----------------------------------------------------------------------------
(* Properties.                                                             *)

\* The listener has answered: outbox holds the report of analyzeSeo(doc).
Answered == ~IsNone(outbox)
Report == outbox[1].payload

Is(item, p, s) == item.points = p /\ item.status = s

\* C1: for every combination of extracted signals the total is an integer in
\* 0..100 and equals the plain sum of the nine points values, so the clamp
\* changes nothing.
C1_TotalIsPlainSum ==
    Answered =>
        LET it == Report.items
            sum == it.title.points + it.metaDescription.points
                   + it.metaKeywords.points + it.headings.points
                   + it.images.points + it.canonical.points
                   + it.robots.points + it.structuredData.points
                   + it.wordCount.points
        IN  /\ Report.score.total \in 0..100
            /\ Report.score.total = sum

\* C1 witness: a report in which every signal scores its maximum.
C1_Witness ==
    /\ Answered
    /\ Report.score.total = 99
    /\ Report.items.title.points = 20
    /\ Report.items.wordCount.points = 10

\* C2: every scorer returns points inside its signal's fixed range and a status
\* among good, warn, bad.
C2_PointsInRange ==
    Answered =>
        LET it == Report.items
        IN  /\ it.title.points \in 0..20
            /\ it.metaDescription.points \in 0..20
            /\ it.headings.points \in 0..15
            /\ it.images.points \in 0..10
            /\ it.structuredData.points \in 0..10
            /\ it.wordCount.points \in 0..10
            /\ it.robots.points \in 0..6
            /\ it.canonical.points \in 0..5
            /\ it.metaKeywords.points \in 0..3
            /\ \A n \in SignalNames : it[n].status \in Statuses

\* C2 witness: a canonical link that reaches the top of its range.
C2_Witness ==
    /\ Answered
    /\ Report.items.canonical.points = 5
    /\ Report.raw.canonical = U_https

\* C3: thresholds are inclusive.  Title length 10 or 60 and description length
\* 50 or 160 score 20/good, one character outside scores 12/warn; alt coverage
\* exactly 9/10 scores 10/good and exactly 3/5 scores 6/warn; 300 words score
\* 10/good and 150 words 6/warn.
C3_BoundariesInclusive ==
    Answered =>
        LET it == Report.items
            raw == Report.raw
        IN  /\ Len(raw.title) \in {10, 60} => Is(it.title, 20, "good")
            /\ Len(raw.title) \in {9, 61} => Is(it.title, 12, "warn")
            /\ Len(raw.metaDescription) \in {50, 160}
                   => Is(it.metaDescription, 20, "good")
            /\ Len(raw.metaDescription) \in {49, 161}
                   => Is(it.metaDescription, 12, "warn")
            /\ (raw.images.total > 0
                /\ 10 * raw.images.withAlt = 9 * raw.images.total)
                   => Is(it.images, 10, "good")
            /\ (raw.images.total > 0
                /\ 5 * raw.images.withAlt = 3 * raw.images.total)
                   => Is(it.images, 6, "warn")
            /\ raw.wordCount = 300 => Is(it.wordCount, 10, "good")
            /\ raw.wordCount = 150 => Is(it.wordCount, 6, "warn")

\* C3 witness: nine of ten images carry alt text.
C3_Witness ==
    /\ Answered
    /\ Report.raw.images.total = 10
    /\ Report.raw.images.withAlt = 9

NonEmptyBlock(text) == Len(normalizeSpace(text)) > 0

\* The stats of the document's blocks with the empty ones removed.
StatsWithoutEmpty ==
    getJsonLdBlocks([doc EXCEPT
                        !.jsonld = SelectSeq(doc.jsonld, NonEmptyBlock)])

\* C4 as stated: the structured-data stats of any list of blocks, count
\* included, equal the stats of the same list with the empty blocks removed.
C4_EmptyBlocksNotCounted ==
    Answered => Report.raw.jsonld = StatsWithoutEmpty

\* C4 amended: an empty block adds nothing to parsedCount and nothing to
\* parseErrors, but it is included in count, which is the number of all
\* structured-data script elements.
C4_EmptyBlocksSkipped ==
    Answered =>
        LET j == Report.raw.jsonld
            empties == Len(doc.jsonld) - Len(SelectSeq(doc.jsonld, NonEmptyBlock))
        IN  /\ j.parsedCount = StatsWithoutEmpty.parsedCount
            /\ j.parseErrors = StatsWithoutEmpty.parseErrors
            /\ j.count = StatsWithoutEmpty.count + empties
            /\ j.parsedCount + j.parseErrors = j.count - empties

\* C4 witness: a single whitespace-only block is counted and neither parsed
\* nor an error.
C4_Witness ==
    /\ Answered
    /\ doc.jsonld = << << "\n", " " >> >>
    /\ Report.raw.jsonld = [count |-> 1, parsedCount |-> 0, parseErrors |-> 0]

\* C5 as stated: zero blocks give 0/warn; 10/good exactly when there is a
\* block and parsedCount = count with no parse error; 5/warn otherwise.
C5_GoodIffAllParsed ==
    Answered =>
        LET j == Report.raw.jsonld
            it == Report.items.structuredData
            allParsed == j.count >= 1 /\ j.parsedCount = j.count
                         /\ j.parseErrors = 0
        IN  /\ j.count = 0 => Is(it, 0, "warn")
            /\ Is(it, 10, "good") <=> allParsed
            /\ (j.count >= 1 /\ ~allParsed) => Is(it, 5, "warn")

\* C5 amended: zero blocks give 0/warn; 10/good exactly when at least one
\* block parsed and none failed (parsedCount >= 1, parseErrors = 0), that is
\* when some block is non-empty and every non-empty block parses, whatever the
\* number of empty blocks in count; 5/warn in every other case with a block.
C5_GoodIffParsedWithoutErrors ==
    Answered =>
        LET j == Report.raw.jsonld
            it == Report.items.structuredData
            nonEmpty == SelectSeq(doc.jsonld, NonEmptyBlock)
            clean == j.parsedCount >= 1 /\ j.parseErrors = 0
        IN  /\ j.count = 0 => Is(it, 0, "warn")
            /\ Is(it, 10, "good") <=> clean
            /\ (j.count >= 1 /\ ~clean) => Is(it, 5, "warn")
            /\ clean <=> /\ Len(nonEmpty) >= 1
                         /\ \A i \in 1..Len(nonEmpty) :
                                JsonParses(normalizeSpace(nonEmpty[i]))

\* C5 witness: an empty block next to a block that parses still scores good.
C5_Witness ==
    /\ Answered
    /\ Report.raw.jsonld = [count |-> 2, parsedCount |-> 1, parseErrors |-> 0]
    /\ Report.items.structuredData.points = 10

StrongOrder ==
    << [key |-> "title", label |-> "title"],
       [key |-> "metaDescription", label |-> "meta description"],
       [key |-> "canonical", label |-> "canonical"],
       [key |-> "structuredData", label |-> "structured data"] >>

CheckOrder ==
    << [key |-> "headings", label |-> "headings"],
       [key |-> "images", label |-> "image alts"],
       [key |-> "robots", label |-> "robots (noindex/nofollow)"],
       [key |-> "wordCount", label |-> "content length"] >>

RECURSIVE CommaList(_)
CommaList(es) ==
    IF Len(es) = 1 THEN es[1].label
    ELSE es[1].label \o ", " \o CommaList(Tail(es))

Clause(head, es) ==
    IF Len(es) = 0 THEN "" ELSE " " \o head \o ": " \o CommaList(es) \o "."

ExpectedSummary(items, totalScore) ==
    LET IsStrong(e) == items[e.key].status = "good"
        IsIssue(e) == IF e.key = "robots"
                      THEN items[e.key].status = "bad"
                      ELSE items[e.key].status # "good"
    IN  "SEO score: " \o ToString(totalScore) \o "/100."
        \o Clause("Strong", SelectSeq(StrongOrder, IsStrong))
        \o Clause("Check", SelectSeq(CheckOrder, IsIssue))

\* C6: for every assignment of statuses the summary is the score sentence, then
\* a Strong clause listing in fixed order the good ones among title, meta
\* description, canonical, structured data, then a Check clause listing in
\* fixed order the not-good ones among headings, image alts, content length
\* and robots only when bad; an empty clause is omitted; meta keywords is in
\* neither.
C6_SummaryClauses ==
    sumText # "" => sumText = ExpectedSummary(sumItems, sumTotal)

\* C6 witness: robots is warn (not listed), title is good, headings are bad.
C6_Witness ==
    /\ sumText # ""
    /\ sumItems.robots.status = "warn"
    /\ sumItems.title.status = "good"
    /\ sumItems.headings.status = "bad"
    /\ sumItems.metaKeywords.status = "good"

\* C7: headings score 0/bad exactly when all six counts are zero, 15/good
\* exactly when there is exactly one H1, and 7/warn otherwise, with badge
\* 'No H1' when H1 is zero and another heading is present.
C7_Headings ==
    Answered =>
        LET c == Report.raw.headings
            it == Report.items.headings
            none == \A k \in {"h1", "h2", "h3", "h4", "h5", "h6"} : c[k] = 0
        IN  /\ Is(it, 0, "bad") <=> none
            /\ Is(it, 15, "good") <=> c.h1 = 1
            /\ (~none /\ c.h1 # 1) => Is(it, 7, "warn")
            /\ (~none /\ c.h1 = 0) => it.badge = "No H1"

\* C7 witness: two H1s next to other headings.
C7_Witness ==
    /\ Answered
    /\ Report.raw.headings.h1 = 2
    /\ Report.raw.headings.h3 = 1
    /\ Report.items.headings.points = 7

UpperOf(c) ==
    CASE c = "n" -> "N" [] c = "o" -> "O" [] c = "i" -> "I" [] c = "d" -> "D"
      [] c = "e" -> "E" [] c = "x" -> "X" [] c = "f" -> "F" [] c = "l" -> "L"
      [] c = "w" -> "W"

\* word occurs in s at some position, each letter in either case.
ContainsIgnoringCase(s, word) ==
    \E i \in 1..(Len(s) - Len(word) + 1) :
        \A j \in 1..Len(word) : s[i + j - 1] \in { word[j], UpperOf(word[j]) }

\* C8: robots scores 0/bad exactly when the directive contains noindex or
\* nofollow in any letter case, 6/good in every other case including the
\* absent directive, and never warn.
C8_Robots ==
    Answered =>
        LET r == Report.raw.robots
            it == Report.items.robots
            blocking == ContainsIgnoringCase(r, S_noindex)
                        \/ ContainsIgnoringCase(r, S_nofollow)
        IN  /\ Is(it, 0, "bad") <=> blocking
            /\ ~blocking => Is(it, 6, "good")
            /\ it.status # "warn"

\* C8 witness: a mixed-case noindex directive is recognised.
C8_Witness ==
    /\ Answered
    /\ Report.raw.robots = << "N", "O", "I", "n", "d", "e", "x" >>
    /\ Report.items.robots.status = "bad"

\* C9: with withAlt + withoutAlt = total, images score 6/warn 'No images' when
\* total is 0, 10/good when coverage is at least 0.9, 6/warn when it is in
\* [0.6, 0.9) and 2/bad below 0.6.  Coverage is stated through the missing
\* share: withAlt/total >= 9/10 iff withoutAlt/total <= 1/10, and
\* withAlt/total >= 3/5 iff withoutAlt/total <= 2/5.
C9_Images ==
    Answered =>
        LET im == Report.raw.images
            it == Report.items.images
            high == 10 * im.withoutAlt <= im.total
            mid == 5 * im.withoutAlt <= 2 * im.total
        IN  /\ im.withAlt + im.withoutAlt = im.total
            /\ im.total = 0 => Is(it, 6, "warn") /\ it.badge = "No images"
            /\ (im.total > 0 /\ high) => Is(it, 10, "good")
            /\ (im.total > 0 /\ ~high /\ mid) => Is(it, 6, "warn")
            /\ (im.total > 0 /\ ~mid) => Is(it, 2, "bad")

\* C9 witness: the page has image elements but none with a usable src.
C9_Witness ==
    /\ Answered
    /\ Len(doc.images) = 2
    /\ Report.raw.images.total = 0
    /\ Report.items.images.badge = "No images"

FailurePaths == { "tabFail", "restricted", "sendReject", "badResponse" }

\* C10: when analyze() has ended on a failure path, a non-empty error message
\* is visible, the score shows the placeholder, no result row is displayed;
\* and a run that ended on the restricted/missing URL path sent no ANALYZE_SEO
\* request and never invoked analyzeSeo.
C10_FailureState ==
    (pc = "idle" /\ path \in FailurePaths) =>
        /\ ~errorHidden
        /\ errorText # ""
        /\ scoreText = Placeholder
        /\ results = << >>
        /\ path = "restricted" =>
               (requests = 0 /\ coreCalls = 0 /\ IsNone(inbox))

\* C10 witness: a run over a tab with a restricted URL has ended.
C10_Witness ==
    /\ pc = "idle"
    /\ path = "restricted"
    /\ Len(tabs) = 1
    /\ pageUrlText = P_about \o << "b", "l", "a", "n", "k" >>

\* The maximum of each signal, as claimed.
MaxPoints ==
    [title |-> 20, metaDescription |-> 20, metaKeywords |-> 3, headings |-> 15,
     images |-> 10, canonical |-> 5, robots |-> 6, structuredData |-> 10,
     wordCount |-> 10]

\* C11: for every signal the status is good exactly when the points equal the
\* signal's maximum (20, 20, 3, 15, 10, 5, 6, 10, 10), and a status of bad
\* carries at most 2 points; so the total is 99 exactly when all nine statuses
\* are good, and the total is never 100.
C11_GoodIffMaximum ==
    Answered =>
        LET it == Report.items
        IN  /\ \A n \in SignalNames :
                   /\ it[n].status = "good" <=> it[n].points = MaxPoints[n]
                   /\ it[n].status = "bad" => it[n].points <= 2
            /\ Report.score.total = 99
                   <=> \A n \in SignalNames : it[n].status = "good"
            /\ Report.score.total # 100

\* C11 witness: a report whose nine statuses are all good; its total is 99.
C11_Witness ==
    /\ Answered
    /\ \A n \in SignalNames : Report.items[n].status = "good"
    /\ Report.score.total = 99

\* A run of analyze() is between its start and its return.
Running == pc \in { "await_tab", "await_msg" }

\* Requests in flight: sent and not yet answered, or answered and not yet
\* received by the popup.
InFlight ==
    (IF IsNone(inbox) THEN 0 ELSE 1) + (IF IsNone(outbox) THEN 0 ELSE 1)

\* C12: REFRESH is disabled while a run of analyze() is in progress and is
\* enabled again whenever a run has finished, on each of the five ways a run
\* finishes; at most one analysis request is in flight at any time and a run
\* sends at most one; and, the tab query and the message call settling, a
\* disabled REFRESH is eventually enabled again.
C12_RefreshGuardsSingleRun ==
    /\ [](Running => refreshDisabled)
    /\ [](pc = "idle" =>
              /\ ~refreshDisabled
              /\ path \in FailurePaths \cup { "rendered" })
    /\ [](InFlight <= 1 /\ requests <= 1 /\ (InFlight = 1 => Running))
    /\ (refreshDisabled ~> ~refreshDisabled)

\* C12 witness: after a run that rendered a report, a click was accepted and
\* the second run has its request in flight with REFRESH disabled.
C12_Witness ==
    /\ pc = "await_msg"
    /\ path = "rendered"
    /\ refreshDisabled
    /\ InFlight = 1
    /\ requests = 1

====
